---- MODULE Spec2Model ----
(***************************************************************************)
(* Request-scoped telemetry enrichment of go-otel-example.                 *)
(*                                                                         *)
(* Spec       the chi middleware chain around the business handler, for    *)
(*            NReq requests served concurrently (one goroutine each).      *)
(* SpecStore  one attribute store (sync.RWMutex around a plain map) used   *)
(*            by NCalls concurrent AddAttribute calls and one reader.      *)
(* SpecReq    one request through the chain, for any handler registered on *)
(*            the route, any log level set before the chain, and a clock.  *)
(* SpecShutdown  main from the shutdown signal to its end, with the        *)
(*            serving goroutine and the requests in flight.                *)
(***************************************************************************)
EXTENDS Integers, Sequences, FiniteSets, TLC

\* ----------------------------------------------------------------- bounds
NReq == 2          \* requests in flight at the same time
MaxInit == 2       \* InitializeLoggingContext stages stacked in one chain
NCalls == 2        \* concurrent AddAttribute calls on the one store of SpecStore
MaxTick == 2       \* clock readings 0..MaxTick
MaxInflight == 2   \* requests in flight when the shutdown signal arrives
MaxClock == 22     \* seconds followed after the shutdown signal

\* -------------------------------------------------------------- constants
Nil == 0           \* the nil *LoggingContext
UserID == 12345    \* loggingContext.AddAttribute("user_id", 12345)
StatusOK == 200
StatusNotFound == 404
StatusInternalServerError == 500
HelloBodyLen == 21 \* len("Hello, OpenTelemetry!")
NotFoundBodyLen == 19   \* len("404 page not found\n"), the mux's http.NotFound
CounterIncrement == 1   \* counter.Add(r.Context(), 1, ...)
DrainSeconds == 10      \* context.WithTimeout(context.Background(), 10*time.Second)
ExitTimerSeconds == 11  \* time.After(11 * time.Second)

Reqs == 1..NReq
Calls == 1..NCalls
Keys == {"", "a", "b", "c"}
StoreIds == 1..(NReq * (MaxInit + 1))

\* attribute values keep their Go type
IntVal(n) == <<"int", n>>
StrVal(s) == <<"string", s>>

EmptyMap == <<>>

VARIABLES
  wiring,        \* the middleware chain registered with r.Use, outermost first
  phase,         \* per request: idle, down, up, panic, done
  pos,           \* per request: index of the stage that runs next
  path,          \* per request: r.URL.Path
  fault,         \* per request: the business handler panics
  ctxAt,         \* per request: ctxAt[r][i] is r.Context() as stage i sees it
  routePattern,  \* per request: chi.RouteContext(...).RoutePattern()
  stores,        \* heap of LoggingContext.attributes maps, by store id
  allocs,        \* per request: stores newLoggingContext made for it
  writers,       \* per store: the requests whose stages or handler wrote to it
  resp,          \* per request: the real http.ResponseWriter
  mw,            \* per request: MetricsMiddleware's WrapResponseWriter
  lw,            \* per request: LoggingMiddleware's WrapResponseWriter
  counterAdds,   \* per request: attribute sets of counter.Add calls
  histRecords,   \* per request: attribute sets of histogram.Record calls
  logs,          \* per request: entries written to the zap logger
  span,          \* per request: the otelhttp span of the request
  now,           \* the monotonic clock time.Now() and time.Since read
  mstart,        \* per request: MetricsMiddleware's start
  counterVals,   \* per request: the increments of the counter.Add calls
  histVals,      \* per request: the durations of the histogram.Record calls
  events,        \* per request: the stage code that ran, in order
  hin            \* per request: what the handler registered on the route does

VARIABLES
  kind,          \* the store's type: LoggingContext or MetricContext
  attributes,    \* the store's map
  muW,           \* mu: the call that holds or awaits the write lock, or Nil
  muReaders,     \* mu: number of read locks held
  cpc,           \* per AddAttribute call: idle, lock, wait, held, wrote, done
  ckey,          \* per AddAttribute call: its key (its value is the call's id)
  lockOrder,     \* the calls in the order they acquired the write lock
  rpc,           \* the whole-store read: idle, iter, done
  rtodo,         \* the read: keys the range loop has not visited yet
  delivered,     \* the read: the (key, value) pairs handed out, in order
  rAfterAll,     \* the read took its lock after every call had returned
  inCallback     \* the AddAttribute call the read's callback made, or Nil

VARIABLES
  mainPc,        \* main: wait (<-quit), shutdown (in srv.Shutdown), select, exited, fatal
  servePc,       \* the serving goroutine: starting, serving, returned, closed
  inflight,      \* requests the server is handling
  clock,         \* seconds since the shutdown signal
  drainDeadline, \* when the context given to srv.Shutdown expires
  exitTimer,     \* when time.After of the final select fires
  shutdownErr,   \* what srv.Shutdown returned: none yet, nil, deadline
  procLogs       \* the messages main and its goroutine logged, in order

shutVars == <<mainPc, servePc, inflight, clock, drainDeadline, exitTimer,
              shutdownErr, procLogs>>

storeVars == <<kind, attributes, muW, muReaders, cpc, ckey, lockOrder, rpc,
               rtodo, delivered, rAfterAll, inCallback>>

pipeVars == <<wiring, phase, pos, path, fault, ctxAt, routePattern, stores,
              allocs, writers, resp, mw, lw, counterAdds, histRecords,
              logs, span, now, mstart, counterVals, histVals, events, hin>>

vars == <<pipeVars, storeVars, shutVars>>

\* ------------------------------------------------------------------ maps
\* m[key] = value on a Go map
MapStoreLossy(m, k, v) == (k :> v)

MapStore(m, k, v) ==
  [x \in (DOMAIN m) \cup {k} |-> IF x = k THEN v ELSE m[x]]

\* append(defaultAttrs, customAttrs...) as an attribute set (later key wins)
MergeAttrs(d, c) ==
  [x \in (DOMAIN d) \cup (DOMAIN c) |-> IF x \in DOMAIN c THEN c[x] ELSE d[x]]

\* ---------------------------------------------------------------- wiring
RECURSIVE Repeat(_, _)
Repeat(x, n) == IF n = 0 THEN <<>> ELSE <<x>> \o Repeat(x, n - 1)

\* the chain with the logging stage registered before the metrics stage
WiringLoggingBeforeMetrics(nInit, tracing) ==
  <<"Recoverer">>
    \o Repeat("InitializeLoggingContext", nInit)
    \o (IF tracing THEN <<"TracingMiddleware">> ELSE <<>>)
    \o <<"LoggingMiddleware", "MetricsMiddleware">>

\* the chain with its initialization stages registered last
WiringInitLast(nInit, tracing) ==
  <<"Recoverer">>
    \o (IF tracing THEN <<"TracingMiddleware">> ELSE <<>>)
    \o <<"MetricsMiddleware", "LoggingMiddleware">>
    \o Repeat("InitializeLoggingContext", nInit)

\* main's chain with nInit initialization stages; the first one sits where
\* main puts it, the others are stacked after the tracing stage
Wiring(nInit, tracing) ==
  <<"Recoverer">>
    \o (IF nInit >= 1 THEN <<"InitializeLoggingContext">> ELSE <<>>)
    \o (IF tracing THEN <<"TracingMiddleware">> ELSE <<>>)
    \o (IF nInit >= 2 THEN Repeat("InitializeLoggingContext", nInit - 1) ELSE <<>>)
    \o <<"MetricsMiddleware", "LoggingMiddleware">>

MainWiring == Wiring(1, TRUE)

\* main's chain with 0..MaxInit initialization stages, and the chain of the
\* metrics and logging stages alone
Wirings == {Wiring(n, TRUE) : n \in 0..MaxInit} \cup {Wiring(0, FALSE)}

HasStage(w, s) == \E i \in 1..Len(w) : w[i] = s
HandlerPos == Len(wiring) + 1
StageAt(r) == IF pos[r] \in 1..Len(wiring) THEN wiring[pos[r]] ELSE "handler"

Paths == {"/hello/42", "/other"}
HelloPattern == "/hello/{id}"

\* --------------------------------------------------------------- context
\* the values a request context carries under the keys the code uses
BaseCtx(r) == [lc |-> Nil, level |-> "", mattrs |-> EmptyMap, reqID |-> r]

\* newLoggingContext(): a pointer no other allocation returns
NewStoreId(r) == (r - 1) * (MaxInit + 1) + allocs[r] + 1

\* GetLoggingContext: the store bound to ctx or nil; it derives no context,
\* so the context its two-valued callers go on with is the one passed in
GetLoggingContextLazy(ctx) ==
  IF ctx.lc # Nil THEN [lc |-> ctx.lc, ctx |-> ctx]
  ELSE [lc |-> NewStoreId(ctx.reqID),
        ctx |-> [ctx EXCEPT !.lc = NewStoreId(ctx.reqID)]]

GetLoggingContextFreshCtx(ctx) ==
  [lc |-> ctx.lc, ctx |-> [ctx EXCEPT !.lc = Nil]]

GetLoggingContext(ctx) ==
  IF ctx.lc # Nil THEN [lc |-> ctx.lc, ctx |-> ctx]
  ELSE [lc |-> Nil, ctx |-> ctx]

\* InitializeLoggingContext of the sync.Map variant: context.WithValue(
\* r.Context(), LoggingContextKey, &LoggingContext{}) whatever r.Context() holds
InitCtxSyncMap(ctx, fresh) == [ctx EXCEPT !.lc = fresh]

\* InitializeLoggingContext: the context handed to next
InitCtxAlways(ctx, fresh) == [ctx EXCEPT !.lc = fresh]

InitCtxShared(ctx, fresh) ==
  IF ctx.lc = Nil THEN [ctx EXCEPT !.lc = 1] ELSE ctx

InitCtx(ctx, fresh) ==
  IF ctx.lc = Nil THEN [ctx EXCEPT !.lc = fresh] ELSE ctx

\* WithLogLevel
WithLogLevel(ctx, level) == [ctx EXCEPT !.level = level]

\* metrics.AddMeretricAttributes / metrics.GetMeretricAttributes
AddMeretricAttributes(ctx, attrs) == [ctx EXCEPT !.mattrs = attrs]
GetMeretricAttributes(ctx) == ctx.mattrs

\* ------------------------------------------------------ response capture
NewWrapResponseWriter == [code |-> 0, wrote |-> FALSE, bytes |-> 0]

WrapWriteHeader(ww, code) ==
  IF ww.wrote THEN ww ELSE [ww EXCEPT !.code = code, !.wrote = TRUE]

WrapWrite(ww, n) ==
  LET h == WrapWriteHeader(ww, StatusOK) IN [h EXCEPT !.bytes = @ + n]

\* w.WriteHeader(code) and w.Write(n bytes) calls applied in order
RECURSIVE ApplyWrites(_, _)
ApplyWrites(ww, ops) ==
  IF ops = <<>> THEN ww
  ELSE ApplyWrites(IF Head(ops)[1] = "WriteHeader"
                   THEN WrapWriteHeader(ww, Head(ops)[2])
                   ELSE WrapWrite(ww, Head(ops)[2]),
                   Tail(ops))

\* the handler's status calls never arrive at the writer under the capture
ForwardedBodyOnly(ww, ops) == SelectSeq(ops, LAMBDA op : op[1] = "Write")

\* the calls a capture makes on the writer it wraps: WriteHeader passes the
\* first status only, Write sends the implied 200 first when none was sent
RECURSIVE Forwarded(_, _)
Forwarded(ww, ops) ==
  IF ops = <<>> THEN <<>>
  ELSE LET op == Head(ops)
           implied == IF ww.wrote THEN <<>> ELSE << <<"WriteHeader", StatusOK>> >>
       IN IF op[1] = "WriteHeader"
          THEN (IF ww.wrote THEN <<>> ELSE <<op>>)
                 \o Forwarded(WrapWriteHeader(ww, op[2]), Tail(ops))
          ELSE implied \o <<op>> \o Forwarded(WrapWrite(ww, op[2]), Tail(ops))

\* ------------------------------------------------------ business handler
\* what the handler registered on GET /hello/{id} does. any = FALSE is the
\* repository's HelloHandler; any = TRUE is another http.HandlerFunc, given
\* by the AddAttribute calls it makes on the store of its context, the level
\* it sets with WithLogLevel on its own context ("" for none) and its
\* w.WriteHeader / w.Write calls, in order
HelloIn == [any |-> FALSE, adds |-> <<>>, level |-> "", writes |-> <<>>]

HandlerAdds ==
  { <<>>,
    << <<"order_id", IntVal(UserID)>> >>,
    << <<"trace_id", StrVal(UserID)>> >> }

HandlerLevels == {"", "error"}

HandlerWrites ==
  { <<>>,
    << <<"WriteHeader", StatusOK>>, <<"Write", HelloBodyLen>> >>,
    << <<"Write", HelloBodyLen>> >>,
    << <<"WriteHeader", StatusNotFound>> >>,
    << <<"WriteHeader", StatusInternalServerError>>,
       <<"WriteHeader", StatusOK>>, <<"Write", HelloBodyLen>> >> }

HandlerInputs ==
  {HelloIn} \cup [any : {TRUE}, adds : HandlerAdds, level : HandlerLevels,
                  writes : HandlerWrites]

\* the level an outer stage may have stored under LogLevelKey before the chain
UpstreamLevels == {"", "error", "warn", "debug"}

\* lc.AddAttribute(k, v) for each pair of adds, in order
RECURSIVE AddAll(_, _)
AddAll(m, adds) ==
  IF adds = <<>> THEN m
  ELSE AddAll(MapStore(m, Head(adds)[1], Head(adds)[2]), Tail(adds))

\* time.Since(start) on the monotonic clock reading that start carries
SinceReversed(start) == start - now

Since(start) == now - start

\* routePattern := RoutePattern(); if routePattern == "" { = r.URL.Path }
NormalizedRouteRaw(r) == path[r]

NormalizedRoutePatternOnly(r) == routePattern[r]

NormalizedRoute(r) ==
  IF routePattern[r] = "" THEN path[r] ELSE routePattern[r]

\* ------------------------------------------------------------- emitters
\* MetricsMiddleware: defaultAttrs, then append(defaultAttrs, customAttrs...)
DefaultAttrs(r, ww) ==
  ("http.method" :> StrVal("GET"))
    @@ ("http.path" :> StrVal(NormalizedRoute(r)))
    @@ ("http.status_code" :> IntVal(ww.code))

AllAttrs(r, ctx, ww) == MergeAttrs(DefaultAttrs(r, ww), GetMeretricAttributes(ctx))

\* LoggingMiddleware: the nine zap fields every request record starts with
LogFields(r, ctx, ww) ==
  ("request_id" :> IntVal(ctx.reqID))
    @@ ("method" :> StrVal("GET"))
    @@ ("url" :> StrVal(path[r]))
    @@ ("path" :> StrVal(NormalizedRoute(r)))
    @@ ("status" :> IntVal(ww.code))
    @@ ("size" :> IntVal(ww.bytes))
    @@ ("duration" :> StrVal("time.Since(start)"))
    @@ ("remote_addr" :> StrVal("r.RemoteAddr"))
    @@ ("user_agent" :> StrVal("r.UserAgent()"))

\* switch logLevel { case ErrorLevel: Error; case WarnLevel: Warn; default: Info }
RecordLevelStored(ctx) == ctx.level

RecordLevelAlwaysInfo(ctx) == "info"

RecordLevel(ctx) ==
  IF ctx.level = "error" THEN "error"
  ELSE IF ctx.level = "warn" THEN "warn"
  ELSE "info"

MissingStoreWarning(ctx) ==
  [level |-> "warn", msg |-> "LoggingContext not found in request context",
   fields |-> ("request_id" :> IntVal(ctx.reqID)), attrs |-> EmptyMap]

\* the map after IterateAttributes handed its entries to the logger: the
\* range loop under the read lock deletes and assigns nothing
AfterIterateDrained(m) == EmptyMap

AfterIterate(m) == m

\* what LoggingMiddleware writes to the logger after next returned
LogEntriesNoWarning(r, ctx, ww) ==
  LET lc == GetLoggingContext(ctx).lc
      rec == [level |-> RecordLevel(ctx), msg |-> "HTTP Request",
              fields |-> LogFields(r, ctx, ww),
              attrs |-> IF lc # Nil THEN stores[lc] ELSE EmptyMap]
  IN <<rec>>

LogEntries(r, ctx, ww) ==
  LET lc == GetLoggingContext(ctx).lc
      rec == [level |-> RecordLevel(ctx), msg |-> "HTTP Request",
              fields |-> LogFields(r, ctx, ww),
              attrs |-> IF lc # Nil THEN stores[lc] ELSE EmptyMap]
  IN IF lc # Nil THEN <<rec>> ELSE <<MissingStoreWarning(ctx), rec>>

\* ------------------------------------------------------------------ Init
PipeRest ==
  /\ phase = [r \in Reqs |-> "idle"]
  /\ pos = [r \in Reqs |-> 0]
  /\ path = [r \in Reqs |-> "/hello/42"]
  /\ fault = [r \in Reqs |-> FALSE]
  /\ ctxAt = [r \in Reqs |-> <<>>]
  /\ routePattern = [r \in Reqs |-> ""]
  /\ stores = [s \in StoreIds |-> EmptyMap]
  /\ allocs = [r \in Reqs |-> 0]
  /\ writers = [s \in StoreIds |-> {}]
  /\ resp = [r \in Reqs |-> NewWrapResponseWriter]
  /\ mw = [r \in Reqs |-> NewWrapResponseWriter]
  /\ lw = [r \in Reqs |-> NewWrapResponseWriter]
  /\ counterAdds = [r \in Reqs |-> <<>>]
  /\ histRecords = [r \in Reqs |-> <<>>]
  /\ logs = [r \in Reqs |-> <<>>]
  /\ span = [r \in Reqs |-> [started |-> FALSE, ended |-> FALSE, name |-> "",
                            attrs |-> EmptyMap, traceID |-> Nil, spanID |-> Nil]]
  /\ now = 0
  /\ mstart = [r \in Reqs |-> 0]
  /\ counterVals = [r \in Reqs |-> <<>>]
  /\ histVals = [r \in Reqs |-> <<>>]
  /\ events = [r \in Reqs |-> <<>>]
  /\ hin = [r \in Reqs |-> HelloIn]

PipeInit == wiring \in Wirings /\ PipeRest

\* the store of SpecStore, untouched under Spec
StoreInit ==
  /\ kind \in {"LoggingContext", "MetricContext"}
  /\ attributes = EmptyMap
  /\ muW = Nil
  /\ muReaders = 0
  /\ cpc = [c \in Calls |-> "idle"]
  /\ ckey = [c \in Calls |-> ""]
  /\ lockOrder = <<>>
  /\ rpc = "idle"
  /\ rtodo = {}
  /\ delivered = <<>>
  /\ rAfterAll = FALSE
  /\ inCallback = Nil

\* main after srv is built and the serving goroutine is started
ShutInit ==
  /\ mainPc = "wait"
  /\ servePc = "starting"
  /\ inflight = 0
  /\ clock = 0
  /\ drainDeadline = 0
  /\ exitTimer = 0
  /\ shutdownErr = "none"
  /\ procLogs = <<>>

Init == PipeInit /\ StoreInit /\ kind = "LoggingContext" /\ ShutInit

\* --------------------------------------------------------------- actions
CurCtx(r) == ctxAt[r][pos[r]]

\* the stage at pos[r] calls next.ServeHTTP with context c
CallNext(r, c) ==
  /\ ctxAt' = [ctxAt EXCEPT ![r] = Append(@, c)]
  /\ pos' = [pos EXCEPT ![r] = @ + 1]

\* the code of a stage or of the handler starts to run
Log(r, e) == events' = [events EXCEPT ![r] = Append(@, e)]

\* counter.Add(...), then histogram.Record(...)
MetricsEmissions == <<"counter.Add", "histogram.Record">>

\* the stage at pos[r] returns to the stage that called it
ReturnUp(r) ==
  /\ pos' = [pos EXCEPT ![r] = @ - 1]
  /\ phase' = [phase EXCEPT ![r] = "up"]

\* a request reaches the mux: otelhttp starts its span, RequestID names it,
\* and the chain's first stage is entered
ArriveWith(r, p, f, h, lvl) ==
  /\ phase[r] = "idle"
  /\ (f => p = "/hello/42" /\ ~h.any)
  /\ (h.any => p = "/hello/42")
  /\ path' = [path EXCEPT ![r] = p]
  /\ fault' = [fault EXCEPT ![r] = f]
  /\ hin' = [hin EXCEPT ![r] = h]
  /\ phase' = [phase EXCEPT ![r] = "down"]
  /\ pos' = [pos EXCEPT ![r] = 1]
  /\ ctxAt' = [ctxAt EXCEPT ![r] = <<WithLogLevel(BaseCtx(r), lvl)>>]
  /\ span' = [span EXCEPT ![r] = [@ EXCEPT !.started = TRUE, !.traceID = r,
                                            !.spanID = r]]
  /\ UNCHANGED <<storeVars, shutVars, now, mstart, counterVals, histVals, events,
                 wiring, routePattern, stores, allocs, writers, resp, mw, lw,
                 counterAdds, histRecords, logs>>

\* a request for the repository's own handler, no level set before the chain
Arrive(r) ==
  \E p \in Paths, f \in BOOLEAN : ArriveWith(r, p, f, HelloIn, "")

\* a request for whatever handler is registered, behind any outer stage
ArriveAny(r) ==
  \E p \in Paths, f \in BOOLEAN, h \in HandlerInputs, lvl \in UpstreamLevels :
    ArriveWith(r, p, f, h, lvl)

\* middleware.Recoverer on the way down: defer recover(), next.ServeHTTP(w, r)
RecovererBefore(r) ==
  /\ phase[r] = "down" /\ StageAt(r) = "Recoverer"
  /\ CallNext(r, CurCtx(r))
  /\ UNCHANGED <<storeVars, shutVars, now, mstart, counterVals, histVals, events, hin,
                 wiring, phase, path, fault, routePattern, stores, allocs,
                 writers, resp, mw, lw, counterAdds, histRecords, logs, span>>

\* InitializeLoggingContext
InitializeLoggingContext(r) ==
  /\ phase[r] = "down" /\ StageAt(r) = "InitializeLoggingContext"
  /\ Log(r, "init")
  /\ LET c == InitCtx(CurCtx(r), NewStoreId(r)) IN
       /\ CallNext(r, c)
       /\ allocs' = [allocs EXCEPT ![r] = IF c.lc = NewStoreId(r) THEN @ + 1 ELSE @]
  /\ UNCHANGED <<storeVars, shutVars, now, mstart, counterVals, histVals, hin,
                 wiring, phase, path, fault, routePattern, stores, writers, resp,
                 mw, lw, counterAdds, histRecords, logs, span>>

\* InitializeLoggingContext of the sync.Map variant
InitializeLoggingContextSyncMap(r) ==
  /\ phase[r] = "down" /\ StageAt(r) = "InitializeLoggingContextSyncMap"
  /\ Log(r, "init")
  /\ CallNext(r, InitCtxSyncMap(CurCtx(r), NewStoreId(r)))
  /\ allocs' = [allocs EXCEPT ![r] = @ + 1]
  /\ UNCHANGED <<storeVars, shutVars, now, mstart, counterVals, histVals, hin,
                 wiring, phase, path, fault, routePattern, stores, writers, resp,
                 mw, lw, counterAdds, histRecords, logs, span>>

\* traceID.String() and spanID of trace.SpanFromContext(r.Context())
TraceAttrsNoSpan(r) ==
  << <<"trace_id", StrVal(Nil)>>, <<"span_id", IntVal(Nil)>> >>

TraceAttrs(r) ==
  << <<"trace_id", StrVal(span[r].traceID)>>,
     <<"span_id", IntVal(span[r].spanID)>> >>

\* TracingMiddleware before next: trace_id and span_id go into the store.
\* AddAttribute on a nil *LoggingContext dereferences nil in lc.mu.Lock().
TracingBefore(r) ==
  /\ phase[r] = "down" /\ StageAt(r) = "TracingMiddleware"
  /\ Log(r, "tracing.pre")
  /\ LET g == GetLoggingContext(CurCtx(r)) IN
       IF g.lc = Nil
       THEN /\ phase' = [phase EXCEPT ![r] = "panic"]
            /\ UNCHANGED <<pos, ctxAt, stores, writers>>
       ELSE /\ stores' = [stores EXCEPT ![g.lc] = AddAll(@, TraceAttrs(r))]
            /\ writers' = [writers EXCEPT ![g.lc] = @ \cup {r}]
            /\ CallNext(r, g.ctx)
            /\ UNCHANGED phase
  /\ UNCHANGED <<storeVars, shutVars, now, mstart, counterVals, histVals, hin,
                 wiring, path, fault, routePattern, allocs, resp, mw, lw,
                 counterAdds, histRecords, logs, span>>

\* MetricsMiddleware before next: start := time.Now(), ww wraps w
MetricsBefore(r) ==
  /\ phase[r] = "down" /\ StageAt(r) = "MetricsMiddleware"
  /\ Log(r, "metrics.pre")
  /\ mstart' = [mstart EXCEPT ![r] = now]
  /\ mw' = [mw EXCEPT ![r] = NewWrapResponseWriter]
  /\ CallNext(r, CurCtx(r))
  /\ UNCHANGED <<storeVars, shutVars, now, counterVals, histVals, hin,
                 wiring, phase, path, fault, routePattern, stores, allocs,
                 writers, resp, lw, counterAdds, histRecords, logs, span>>

\* LoggingMiddleware before next: start := time.Now(), ww wraps w
LoggingBefore(r) ==
  /\ phase[r] = "down" /\ StageAt(r) = "LoggingMiddleware"
  /\ Log(r, "logging.pre")
  /\ lw' = [lw EXCEPT ![r] = NewWrapResponseWriter]
  /\ CallNext(r, CurCtx(r))
  /\ UNCHANGED <<storeVars, shutVars, now, mstart, counterVals, histVals, hin,
                 wiring, phase, path, fault, routePattern, stores, allocs,
                 writers, resp, mw, counterAdds, histRecords, logs, span>>

\* a write of the handler passes the logging capture, the metrics capture and
\* reaches the real writer
WriteOps(r, ops) ==
  LET toMetrics == Forwarded(lw[r], ops)
      toWriter == Forwarded(mw[r], toMetrics)
  IN /\ lw' = [lw EXCEPT ![r] = ApplyWrites(@, ops)]
     /\ mw' = [mw EXCEPT ![r] = ApplyWrites(@, toMetrics)]
     /\ resp' = [resp EXCEPT ![r] = ApplyWrites(@, toWriter)]

WriteThrough(r, code, n) ==
  WriteOps(r, << <<"WriteHeader", code>>, <<"Write", n>> >>)

\* HelloHandler: AddAttribute("user_id", 12345), AddAttribute("custom_key", ...)
HandlerAttrs ==
  ("user_id" :> IntVal(UserID)) @@ ("custom_key" :> StrVal("custom_value"))

\* the mux matches GET /hello/{id} and runs HelloHandler
HelloHandler(r) ==
  /\ phase[r] = "down" /\ pos[r] = HandlerPos /\ path[r] = "/hello/42"
  /\ ~hin[r].any
  /\ Log(r, "handler")
  /\ routePattern' = [routePattern EXCEPT ![r] = HelloPattern]
  /\ LET g == GetLoggingContext(CurCtx(r)) IN
       IF fault[r] \/ g.lc = Nil
       THEN /\ phase' = [phase EXCEPT ![r] = "panic"]
            /\ UNCHANGED <<pos, ctxAt, stores, writers, resp, mw, lw>>
       ELSE /\ stores' = [stores EXCEPT ![g.lc] =
                  MapStore(MapStore(@, "user_id", HandlerAttrs["user_id"]),
                           "custom_key", HandlerAttrs["custom_key"])]
            /\ writers' = [writers EXCEPT ![g.lc] = @ \cup {r}]
            /\ ctxAt' = [ctxAt EXCEPT ![r] = Append(@,
                  AddMeretricAttributes(WithLogLevel(CurCtx(r), "info"),
                    ("user_role" :> StrVal("admin")) @@ ("custom" :> StrVal("example"))))]
            /\ WriteThrough(r, StatusOK, HelloBodyLen)
            /\ ReturnUp(r)
  /\ UNCHANGED <<storeVars, shutVars, now, mstart, counterVals, histVals, hin,
                 wiring, path, fault, allocs, counterAdds, histRecords, logs,
                 span>>

\* no route matches: the mux runs its NotFound handler
NotFound(r) ==
  /\ phase[r] = "down" /\ pos[r] = HandlerPos /\ path[r] # "/hello/42"
  /\ Log(r, "handler")
  /\ WriteThrough(r, StatusNotFound, NotFoundBodyLen)
  /\ ReturnUp(r)
  /\ UNCHANGED <<storeVars, shutVars, now, mstart, counterVals, histVals, hin,
                 wiring, path, fault, ctxAt, routePattern, stores, allocs,
                 writers, counterAdds, histRecords, logs, span>>

\* the mux matches GET /hello/{id} and runs a handler other than HelloHandler:
\* its AddAttribute calls (a nil store makes the first one panic), its own
\* context, its writes through both captures
AnyHandler(r) ==
  /\ phase[r] = "down" /\ pos[r] = HandlerPos /\ path[r] = "/hello/42"
  /\ hin[r].any
  /\ Log(r, "handler")
  /\ routePattern' = [routePattern EXCEPT ![r] = HelloPattern]
  /\ LET g == GetLoggingContext(CurCtx(r)) IN
       IF hin[r].adds # <<>> /\ g.lc = Nil
       THEN /\ phase' = [phase EXCEPT ![r] = "panic"]
            /\ UNCHANGED <<pos, ctxAt, stores, writers, resp, mw, lw>>
       ELSE /\ IF hin[r].adds # <<>>
               THEN /\ stores' = [stores EXCEPT ![g.lc] = AddAll(@, hin[r].adds)]
                    /\ writers' = [writers EXCEPT ![g.lc] = @ \cup {r}]
               ELSE UNCHANGED <<stores, writers>>
            /\ ctxAt' = [ctxAt EXCEPT ![r] = Append(@,
                  IF hin[r].level = "" THEN CurCtx(r)
                  ELSE WithLogLevel(CurCtx(r), hin[r].level))]
            /\ WriteOps(r, hin[r].writes)
            /\ ReturnUp(r)
  /\ UNCHANGED <<storeVars, shutVars, now, mstart, counterVals, histVals, hin,
                 wiring, path, fault, allocs, counterAdds, histRecords, logs,
                 span>>

\* the clock advances
Tick ==
  /\ now < MaxTick
  /\ now' = now + 1
  /\ UNCHANGED <<storeVars, shutVars, mstart, counterVals, histVals, events, hin,
                 wiring, phase, pos, path, fault, ctxAt, routePattern, stores,
                 allocs, writers, resp, mw, lw, counterAdds, histRecords, logs,
                 span>>

\* LoggingMiddleware after next returned
LoggingAfter(r) ==
  /\ phase[r] = "up" /\ StageAt(r) = "LoggingMiddleware"
  /\ Log(r, "logging.post")
  /\ logs' = [logs EXCEPT ![r] = @ \o LogEntries(r, CurCtx(r), lw[r])]
  /\ LET lc == GetLoggingContext(CurCtx(r)).lc IN
       stores' = IF lc # Nil THEN [stores EXCEPT ![lc] = AfterIterate(@)]
                 ELSE stores
  /\ ReturnUp(r)
  /\ UNCHANGED <<storeVars, shutVars, now, mstart, counterVals, histVals, hin,
                 wiring, path, fault, ctxAt, routePattern, allocs,
                 writers, resp, mw, lw, counterAdds, histRecords, span>>

\* MetricsMiddleware after next returned
MetricsAfter(r) ==
  /\ phase[r] = "up" /\ StageAt(r) = "MetricsMiddleware"
  /\ events' = [events EXCEPT ![r] = Append(@, "metrics.post") \o MetricsEmissions]
  /\ LET a == AllAttrs(r, CurCtx(r), mw[r]) IN
       /\ counterAdds' = [counterAdds EXCEPT ![r] = Append(@, a)]
       /\ counterVals' = [counterVals EXCEPT ![r] = Append(@, CounterIncrement)]
       /\ histRecords' = [histRecords EXCEPT ![r] = Append(@, a)]
       /\ histVals' = [histVals EXCEPT ![r] = Append(@, Since(mstart[r]))]
  /\ ReturnUp(r)
  /\ UNCHANGED <<storeVars, shutVars, now, mstart, hin,
                 wiring, path, fault, ctxAt, routePattern, stores, allocs,
                 writers, resp, mw, lw, logs, span>>

\* span.SetName(r.Method + " " + routePattern)
SpanNameMethodOnly(r) == "GET"

SpanName(r) == "GET " \o NormalizedRoute(r)

\* TracingMiddleware after next returned
TracingAfter(r) ==
  /\ phase[r] = "up" /\ StageAt(r) = "TracingMiddleware"
  /\ Log(r, "tracing.post")
  /\ span' = [span EXCEPT ![r] =
        [@ EXCEPT !.attrs = MergeAttrs(@,
                     ("http.method" :> StrVal("GET"))
                       @@ ("http.path" :> StrVal(NormalizedRoute(r)))),
                  !.name = SpanName(r)]]
  /\ ReturnUp(r)
  /\ UNCHANGED <<storeVars, shutVars, now, mstart, counterVals, histVals, hin,
                 wiring, path, fault, ctxAt, routePattern, stores, allocs,
                 writers, resp, mw, lw, counterAdds, histRecords, logs>>

\* InitializeLoggingContext and Recoverer have nothing to do after next
\* returned normally
StageReturns(r) ==
  /\ phase[r] = "up"
  /\ StageAt(r) \in {"InitializeLoggingContext", "InitializeLoggingContextSyncMap",
                     "Recoverer"}
  /\ ReturnUp(r)
  /\ UNCHANGED <<storeVars, shutVars, now, mstart, counterVals, histVals, events, hin,
                 wiring, path, fault, ctxAt, routePattern, stores, allocs,
                 writers, resp, mw, lw, counterAdds, histRecords, logs, span>>

\* a panic unwinds every stage between its origin and Recoverer without
\* running their code after next; Recoverer answers 500 on its own writer
Recover(r) ==
  /\ phase[r] = "panic"
  /\ \E j \in 1..Len(wiring) :
       /\ j <= pos[r] /\ wiring[j] = "Recoverer"
       /\ \A k \in (j + 1)..Len(wiring) : k <= pos[r] => wiring[k] # "Recoverer"
       /\ pos' = [pos EXCEPT ![r] = j - 1]
  /\ phase' = [phase EXCEPT ![r] = "up"]
  /\ resp' = [resp EXCEPT ![r] = WrapWriteHeader(@, StatusInternalServerError)]
  /\ Log(r, "recover")
  /\ UNCHANGED <<storeVars, shutVars, now, mstart, counterVals, histVals, hin,
                 wiring, path, fault, ctxAt, routePattern, stores, allocs,
                 writers, mw, lw, counterAdds, histRecords, logs, span>>

\* the chain returned to otelhttp, which ends the request's span; the server
\* finishes the response, with status 200 if nothing was written
Finish(r) ==
  /\ phase[r] = "up" /\ pos[r] = 0
  /\ phase' = [phase EXCEPT ![r] = "done"]
  /\ span' = [span EXCEPT ![r] = [@ EXCEPT !.ended = TRUE]]
  /\ resp' = [resp EXCEPT ![r] = WrapWriteHeader(@, StatusOK)]
  /\ UNCHANGED <<storeVars, shutVars, now, mstart, counterVals, histVals, events, hin,
                 wiring, pos, path, fault, ctxAt, routePattern, stores, allocs,
                 writers, mw, lw, counterAdds, histRecords, logs>>

Next ==
  \E r \in Reqs :
    \/ Arrive(r)
    \/ RecovererBefore(r)
    \/ InitializeLoggingContext(r)
    \/ TracingBefore(r)
    \/ MetricsBefore(r)
    \/ LoggingBefore(r)
    \/ HelloHandler(r)
    \/ NotFound(r)
    \/ LoggingAfter(r)
    \/ MetricsAfter(r)
    \/ TracingAfter(r)
    \/ StageReturns(r)
    \/ Recover(r)
    \/ Finish(r)

Spec == Init /\ [][Next]_vars

\* main's chain built with the sync.Map variant of InitializeLoggingContext,
\* and a second layer that initializes again in front of the handler
SyncMapWiring ==
  <<"Recoverer", "InitializeLoggingContextSyncMap", "TracingMiddleware",
    "MetricsMiddleware", "LoggingMiddleware", "InitializeLoggingContextSyncMap">>

InitSyncMap ==
  /\ wiring = SyncMapWiring /\ PipeRest
  /\ StoreInit /\ kind = "LoggingContext" /\ ShutInit

NextSyncMap ==
  \E r \in Reqs :
    \/ Arrive(r)
    \/ RecovererBefore(r)
    \/ InitializeLoggingContextSyncMap(r)
    \/ TracingBefore(r)
    \/ MetricsBefore(r)
    \/ LoggingBefore(r)
    \/ HelloHandler(r)
    \/ NotFound(r)
    \/ LoggingAfter(r)
    \/ MetricsAfter(r)
    \/ TracingAfter(r)
    \/ StageReturns(r)
    \/ Recover(r)
    \/ Finish(r)

SpecSyncMap == InitSyncMap /\ [][NextSyncMap]_vars

\* one request through the chain, for any handler registered on the route,
\* any level stored before the chain, and a clock that advances
OneReq == {r \in Reqs : \A q \in Reqs : r <= q}

NextReq ==
  \/ \E r \in OneReq :
       \/ ArriveAny(r)
       \/ RecovererBefore(r)
       \/ InitializeLoggingContext(r)
       \/ TracingBefore(r)
       \/ MetricsBefore(r)
       \/ LoggingBefore(r)
       \/ HelloHandler(r)
       \/ AnyHandler(r)
       \/ NotFound(r)
       \/ LoggingAfter(r)
       \/ MetricsAfter(r)
       \/ TracingAfter(r)
       \/ StageReturns(r)
       \/ Recover(r)
       \/ Finish(r)
  \/ Tick

SpecReq == Init /\ [][NextReq]_vars


\* ------------------------------------------------------- claims on Spec
InitCount == Cardinality({i \in 1..Len(wiring) : wiring[i] = "InitializeLoggingContext"})
LoggingPos == Len(wiring)
AtHandler(r) == phase[r] = "down" /\ pos[r] = HandlerPos
Frames(r) == 1..Len(ctxAt[r])
\* the "HTTP Request" records among a request's log entries
RequestRecords(r) == {i \in 1..Len(logs[r]) : logs[r][i].msg = "HTTP Request"}
DefaultAttrKeys == {"http.method", "http.path", "http.status_code"}
DefaultLogFieldKeys ==
  {"request_id", "method", "url", "path", "status", "size", "duration",
   "remote_addr", "user_agent"}

\* C1: in the chain wired in main, whenever the business handler is about to
\* run, retrieving the store from the handler's context does not yield nil.
C1_StorePresentAtHandler ==
  \A r \in Reqs :
    (wiring = MainWiring /\ AtHandler(r)) => GetLoggingContext(CurCtx(r)).lc # Nil

C1_Witness ==
  \E r \in Reqs : wiring = MainWiring /\ AtHandler(r) /\ path[r] = "/hello/42"

\* C2 (as claimed): for GET /hello/42 through main's chain, the counter
\* increment and the duration observation carry every attribute the handler
\* added (user_id = 12345, custom_key) next to the three default attributes.
C2_HandlerAttrsInMetrics ==
  \A r \in Reqs :
    (wiring = MainWiring /\ path[r] = "/hello/42" /\ ~fault[r]
       /\ Len(counterAdds[r]) > 0)
    => /\ Len(histRecords[r]) > 0
       /\ \A a \in {counterAdds[r][1], histRecords[r][1]} :
            /\ DefaultAttrKeys \subseteq DOMAIN a
            /\ \A k \in DOMAIN HandlerAttrs :
                 k \in DOMAIN a /\ a[k] = HandlerAttrs[k]

\* C3 (as claimed): a request whose handler panicked ends with status 500 and
\* with exactly one counter increment, one duration observation and one
\* request log record, each recording status 500, the record above info.
C3_FaultStillEmitsOnce ==
  \A r \in Reqs :
    (fault[r] /\ phase[r] = "done")
    => /\ resp[r].code = StatusInternalServerError
       /\ Len(counterAdds[r]) = 1 /\ Len(histRecords[r]) = 1
       /\ counterAdds[r][1]["http.status_code"] = IntVal(StatusInternalServerError)
       /\ Cardinality(RequestRecords(r)) = 1
       /\ \A i \in RequestRecords(r) :
            /\ logs[r][i].fields["status"] = IntVal(StatusInternalServerError)
            /\ logs[r][i].level \in {"warn", "error"}

\* C6: the stores bound to two requests are different objects, a store is
\* written only by stages and handler of the request it is bound to, and a
\* request's log record carries that request's own store entries.
BoundStores(r) == {ctxAt[r][i].lc : i \in Frames(r)} \ {Nil}

C6_IsolatedStores ==
  /\ \A r1, r2 \in Reqs : r1 # r2 => BoundStores(r1) \cap BoundStores(r2) = {}
  /\ \A s \in StoreIds : \A r \in writers[s] : s \in BoundStores(r)
  /\ \A r \in Reqs : \A i \in RequestRecords(r) :
       /\ "trace_id" \in DOMAIN logs[r][i].attrs
            => logs[r][i].attrs["trace_id"] = StrVal(span[r].traceID)
       /\ \A s \in BoundStores(r) : logs[r][i].attrs = stores[s]
  /\ \A r \in Reqs : \A i \in 1..Len(counterAdds[r]) :
       counterAdds[r][i]["http.path"] = StrVal(NormalizedRoute(r))

C6_Witness ==
  \E r1, r2 \in Reqs :
    /\ r1 # r2 /\ path[r1] = "/hello/42" /\ path[r2] = "/other"
    /\ phase[r1] = "up" /\ phase[r2] = "up"
    /\ RequestRecords(r1) # {} /\ RequestRecords(r2) # {}
    /\ \E s \in BoundStores(r1) : "user_id" \in DOMAIN stores[s]
    /\ \E s \in BoundStores(r2) : "user_id" \notin DOMAIN stores[s]

\* C7: an initialization stage that finds a store in the context hands the
\* context on unchanged and creates nothing, so every stage after the first
\* initialization, the handler included, sees the first stage's store with
\* the entries written before the later initialization stages.
C7_InitIdempotent ==
  \A r \in Reqs :
    /\ \A i \in Frames(r) :
         (i < Len(ctxAt[r]) /\ i <= Len(wiring)
            /\ wiring[i] = "InitializeLoggingContext" /\ ctxAt[r][i].lc # Nil)
         => ctxAt[r][i + 1] = ctxAt[r][i]
    /\ Cardinality(BoundStores(r)) <= 1
    /\ \A i \in Frames(r) :
         (i > 1 /\ i <= HandlerPos /\ wiring[i - 1] = "InitializeLoggingContext"
            /\ HasStage(SubSeq(wiring, 1, i - 1), "TracingMiddleware"))
         => "trace_id" \in DOMAIN stores[ctxAt[r][i].lc]
    /\ allocs[r] = Cardinality(BoundStores(r))

C7_Witness ==
  \E r \in Reqs :
    /\ InitCount >= 2 /\ HasStage(wiring, "TracingMiddleware")
    /\ phase[r] = "up" /\ pos[r] = LoggingPos
    /\ \E s \in BoundStores(r) :
         /\ ctxAt[r][HandlerPos].lc = s /\ ctxAt[r][3].lc = s
         /\ {"trace_id", "user_id"} \subseteq DOMAIN stores[s]

C9_WarnOnceThenDefaults ==
  \A r \in Reqs :
    (Len(ctxAt[r]) >= LoggingPos /\ ctxAt[r][LoggingPos].lc = Nil /\ logs[r] # <<>>)
    => /\ Len(logs[r]) = 2
       /\ logs[r][1] = MissingStoreWarning(ctxAt[r][LoggingPos])
       /\ logs[r][2].msg = "HTTP Request"
       /\ DOMAIN logs[r][2].fields = DefaultLogFieldKeys
       /\ logs[r][2].attrs = EmptyMap

C9_Witness ==
  \E r \in Reqs :
    /\ Len(ctxAt[r]) >= LoggingPos /\ ctxAt[r][LoggingPos].lc = Nil
    /\ phase[r] = "up" /\ pos[r] = LoggingPos - 1 /\ Len(logs[r]) = 2

\* C10 (as claimed): in a chain without the initialization stage no stage
\* panics on the absent store, the request completes, and one counter
\* increment and one duration observation carry the default attributes only.
C10_AbsentStoreNoCrash ==
  \A r \in Reqs :
    (InitCount = 0 /\ ~fault[r])
    => /\ phase[r] # "panic"
       /\ phase[r] = "done"
            => /\ Len(counterAdds[r]) = 1 /\ Len(histRecords[r]) = 1
               /\ DOMAIN counterAdds[r][1] = DefaultAttrKeys
               /\ DOMAIN histRecords[r][1] = DefaultAttrKeys


\* ----------------------------------------------- claims on Spec and SpecReq
MetricsPos == Len(wiring) - 1
Happened(r, e) == \E i \in 1..Len(events[r]) : events[r][i] = e
\* next.ServeHTTP returned normally to the stage at position p
ReturnedTo(r, p) ==
  phase[r] \in {"up", "done"} /\ ~Happened(r, "recover") /\ pos[r] <= p

\* C11: a request whose downstream chain returned to the metrics stage has,
\* once that stage is left, exactly one counter increment, of value 1, and
\* exactly one duration observation; no request ever has more than one of
\* either, and no observed duration is negative.
C11_OneIncrementOneObservation ==
  \A r \in Reqs :
    /\ Len(counterVals[r]) <= 1 /\ Len(histVals[r]) <= 1
    /\ Len(counterAdds[r]) = Len(counterVals[r])
    /\ Len(histRecords[r]) = Len(histVals[r])
    /\ ReturnedTo(r, MetricsPos - 1)
         => Len(counterVals[r]) = 1 /\ Len(histVals[r]) = 1
    /\ \A i \in 1..Len(counterVals[r]) : counterVals[r][i] = 1
    /\ \A i \in 1..Len(histVals[r]) : histVals[r][i] >= 0

C11_Witness ==
  \E r \in Reqs :
    /\ wiring = MainWiring /\ ReturnedTo(r, MetricsPos - 1)
    /\ counterVals[r] = <<1>> /\ Len(histVals[r]) = 1 /\ histVals[r][1] > 0

\* C12: a request whose downstream chain returned to a logging stage that
\* holds a store has, once that stage is left, exactly one log entry, the
\* request record, written at exactly one of the levels error, warn, info;
\* such a request never has more than that one entry.
C12_OneRecordOneLevel ==
  \A r \in Reqs :
    (Len(ctxAt[r]) >= LoggingPos /\ ctxAt[r][LoggingPos].lc # Nil)
    => /\ Len(logs[r]) <= 1
       /\ ReturnedTo(r, LoggingPos - 1) => Len(logs[r]) = 1
       /\ \A i \in 1..Len(logs[r]) :
            /\ logs[r][i].msg = "HTTP Request"
            /\ logs[r][i].level \in {"error", "warn", "info"}

C12_Witness ==
  \E r \in Reqs :
    /\ ReturnedTo(r, LoggingPos - 1)
    /\ ctxAt[r][1].level = "debug" /\ ctxAt[r][LoggingPos].lc # Nil
    /\ Len(logs[r]) = 1 /\ logs[r][1].level = "info"

\* the keys the handler of request r writes to the store
HandlerKeys(r) ==
  IF hin[r].any THEN {hin[r].adds[i][1] : i \in 1..Len(hin[r].adds)}
  ELSE DOMAIN HandlerAttrs

TraceKeysMatch(r, m) ==
  /\ {"trace_id", "span_id"} \subseteq DOMAIN m
  /\ m["trace_id"] = StrVal(span[r].traceID)
  /\ m["span_id"] = IntVal(span[r].spanID)

\* C13 (as claimed): in a chain with the tracing stage, the store the handler
\* is about to see holds the span's trace_id and span_id, and the request log
\* record carries these two values, whatever the handler added.
C13_TraceFieldsMatchSpan ==
  \A r \in Reqs :
    HasStage(wiring, "TracingMiddleware")
    => /\ AtHandler(r) => TraceKeysMatch(r, stores[CurCtx(r).lc])
       /\ \A i \in RequestRecords(r) : TraceKeysMatch(r, logs[r][i].attrs)

\* C13 (amended): in a chain with the tracing stage, the store the handler
\* is about to see holds the span's trace_id and span_id, and the request log
\* record carries these two values if the handler wrote neither key itself.
C13_TraceFieldsMatchUnlessRewritten ==
  \A r \in Reqs :
    HasStage(wiring, "TracingMiddleware")
    => /\ AtHandler(r) => TraceKeysMatch(r, stores[CurCtx(r).lc])
       /\ HandlerKeys(r) \cap {"trace_id", "span_id"} = {}
            => \A i \in RequestRecords(r) : TraceKeysMatch(r, logs[r][i].attrs)

C13_Witness ==
  \E r \in Reqs :
    /\ HasStage(wiring, "TracingMiddleware")
    /\ hin[r].any /\ HandlerKeys(r) = {"order_id"}
    /\ \E i \in RequestRecords(r) :
         /\ TraceKeysMatch(r, logs[r][i].attrs)
         /\ "order_id" \in DOMAIN logs[r][i].attrs

\* the path labels a request's metrics, log records and span carry so far
MetricPathLabels(r) ==
  {counterAdds[r][i]["http.path"] : i \in 1..Len(counterAdds[r])}
    \cup {histRecords[r][i]["http.path"] : i \in 1..Len(histRecords[r])}
LogPathLabels(r) == {logs[r][i].fields["path"] : i \in RequestRecords(r)}
SpanPathLabels(r) ==
  IF "http.path" \in DOMAIN span[r].attrs THEN {span[r].attrs["http.path"]} ELSE {}
PathLabels(r) == MetricPathLabels(r) \cup LogPathLabels(r) \cup SpanPathLabels(r)

\* C14: for a request the route GET /hello/{id} matches, every path label
\* the metrics, logging and tracing stages emit is the template /hello/{id},
\* not the request path, and the span is named after the template.
C14_LabelIsTemplate ==
  \A r \in Reqs :
    path[r] = "/hello/42"
    => /\ PathLabels(r) \subseteq {StrVal("/hello/{id}")}
       /\ StrVal(path[r]) \notin PathLabels(r)
       /\ span[r].name \in {"", "GET /hello/{id}"}

C14_Witness ==
  \E r \in Reqs :
    /\ path[r] = "/hello/42" /\ phase[r] = "done"
    /\ MetricPathLabels(r) = {StrVal("/hello/{id}")}
    /\ LogPathLabels(r) = {StrVal("/hello/{id}")}
    /\ SpanPathLabels(r) = {StrVal("/hello/{id}")}

\* C15: a request no route matches runs through main's chain without a
\* panic and is answered 404; once the chain is left it has exactly one
\* counter increment, one duration observation and one log entry, the request
\* record, each carrying the raw request path as path label and status 404.
C15_UnmatchedFallsBackToRawPath ==
  \A r \in Reqs :
    (wiring = MainWiring /\ phase[r] # "idle" /\ path[r] # "/hello/42")
    => /\ phase[r] # "panic" /\ ~Happened(r, "recover")
       /\ PathLabels(r) \subseteq {StrVal(path[r])}
       /\ phase[r] = "done"
            => /\ resp[r].code = 404
               /\ Len(counterAdds[r]) = 1 /\ Len(histRecords[r]) = 1
               /\ Len(logs[r]) = 1 /\ RequestRecords(r) = {1}
               /\ counterAdds[r][1]["http.path"] = StrVal(path[r])
               /\ histRecords[r][1]["http.path"] = StrVal(path[r])
               /\ logs[r][1].fields["path"] = StrVal(path[r])
               /\ counterAdds[r][1]["http.status_code"] = IntVal(404)
               /\ histRecords[r][1]["http.status_code"] = IntVal(404)
               /\ logs[r][1].fields["status"] = IntVal(404)

C15_Witness ==
  \E r \in Reqs :
    /\ wiring = MainWiring /\ path[r] = "/other" /\ phase[r] = "done"
    /\ Len(counterAdds[r]) = 1 /\ Len(logs[r]) = 1
    /\ logs[r][1].fields["path"] = StrVal("/other")
    /\ span[r].name = "GET /other"

\* C17: once the handler of a request has returned, no step changes the
\* entries of the request's store: the logging stage reads and logs exactly
\* the entries present at the handler's return, and the post-handler code of
\* the logging, metrics and tracing stages leaves them as they are.
C17_StoreUnchangedAfterHandler ==
  [][\A r \in Reqs :
       ReturnedTo(r, HandlerPos - 1)
       => \A s \in BoundStores(r) :
            /\ stores'[s] = stores[s]
            /\ logs'[r] # logs[r] => logs'[r][Len(logs'[r])].attrs = stores[s]]_vars

C17_Witness ==
  \E r \in Reqs :
    /\ HasStage(wiring, "TracingMiddleware")
    /\ ReturnedTo(r, 0) /\ Happened(r, "tracing.post")
    /\ Happened(r, "metrics.post") /\ Happened(r, "logging.post")
    /\ \E s \in BoundStores(r) :
         /\ DOMAIN stores[s] = {"trace_id", "span_id", "order_id"}
         /\ logs[r][1].attrs = stores[s]

PreEvents == {"tracing.pre", "metrics.pre", "logging.pre"}
PostEvents == {"tracing.post", "metrics.post", "logging.post"}
Before(r, e, i) == \E j \in 1..(i - 1) : events[r][j] = e

\* C18: in main's chain the pre-handler code of the tracing, metrics and
\* logging stages runs only after the store initialization ran, and the
\* post-handler code of these stages (span annotation, metric emission, log
\* emission) runs only after the handler ran and returned without a panic.
C18_InitFirstPostAfterHandler ==
  \A r \in Reqs :
    wiring = MainWiring
    => \A i \in 1..Len(events[r]) :
         /\ events[r][i] \in PreEvents => Before(r, "init", i)
         /\ events[r][i] = "handler"
              => \A e \in PreEvents : Before(r, e, i)
         /\ events[r][i] \in PostEvents
              => /\ Before(r, "handler", i)
                 /\ ~fault[r] /\ ~Happened(r, "recover")

C18_Witness ==
  \E r \in Reqs :
    /\ wiring = MainWiring
    /\ events[r] = <<"init", "tracing.pre", "metrics.pre", "logging.pre",
                     "handler", "logging.post", "metrics.post"
                    >> \o MetricsEmissions \o <<"tracing.post">>

\* C19 (as claimed): when the handler returned to main's chain without a
\* WriteHeader or Write call, the status the metrics stage puts into http.status_code and the
\* status the logging stage puts into the status field are 200.
C19_UnwrittenStatusIs200 ==
  \A r \in Reqs :
    (wiring = MainWiring /\ hin[r].any /\ hin[r].writes = <<>>
       /\ ReturnedTo(r, HandlerPos - 1))
    => /\ \A i \in 1..Len(counterAdds[r]) :
            counterAdds[r][i]["http.status_code"] = IntVal(200)
       /\ \A i \in 1..Len(histRecords[r]) :
            histRecords[r][i]["http.status_code"] = IntVal(200)
       /\ \A i \in RequestRecords(r) : logs[r][i].fields["status"] = IntVal(200)


TracingPos == CHOOSE i \in 1..Len(wiring) : wiring[i] = "TracingMiddleware"

SpanAnnotated(r) ==
  /\ "http.path" \in DOMAIN span[r].attrs
  /\ span[r].attrs["http.path"] =
       StrVal(IF path[r] = "/hello/42" THEN "/hello/{id}" ELSE path[r])
  /\ span[r].name =
       "GET " \o (IF path[r] = "/hello/42" THEN "/hello/{id}" ELSE path[r])

\* C21: in a chain with the tracing stage, once the chain below that stage
\* returned and the stage is left, the request span has http.path set to the
\* route template (the raw path when no route matched) and is named "GET "
\* followed by that label; the span's attributes and name change only while
\* the span is not ended.
C21_SpanAnnotatedBeforeEnd ==
  /\ [](\A r \in Reqs :
          (HasStage(wiring, "TracingMiddleware") /\ ReturnedTo(r, TracingPos - 1))
          => SpanAnnotated(r))
  /\ [][\A r \in Reqs :
          (span'[r].name # span[r].name \/ span'[r].attrs # span[r].attrs)
          => ~span[r].ended /\ ~span'[r].ended]_vars

C21_Witness ==
  \E r1, r2 \in Reqs :
    /\ span[r1].ended /\ SpanAnnotated(r1) /\ path[r1] = "/hello/42"
    /\ span[r2].ended /\ SpanAnnotated(r2) /\ path[r2] = "/other"


\* C24: the level of a request's log record follows the level stored in the
\* context the logging stage holds: error gives an error record, warn a warn
\* record, no level or any other level an info record.
C24_LevelFromStageContext ==
  \A r \in Reqs : \A i \in RequestRecords(r) :
    LET stored == ctxAt[r][LoggingPos].level IN
      /\ stored = "error" => logs[r][i].level = "error"
      /\ stored = "warn" => logs[r][i].level = "warn"
      /\ stored \notin {"error", "warn"} => logs[r][i].level = "info"

C24_Witness ==
  \E r \in Reqs :
    /\ Len(logs[r]) = 1 /\ logs[r][1].msg = "HTTP Request"
    /\ ctxAt[r][LoggingPos].level = "warn" /\ logs[r][1].level = "warn"

\* C25 (as claimed): the level the handler sets with WithLogLevel on its
\* request context is the level of the request's log record; a handler that
\* sets error gets an error record.
C25_HandlerLevelDecides ==
  \A r \in Reqs : \A i \in RequestRecords(r) :
    (wiring = MainWiring /\ hin[r].any /\ hin[r].level = "error")
    => logs[r][i].level = "error"


\* C27 (as claimed): with two sync.Map-variant initialization stages in one
\* chain a request has one store, and the user_id the handler added is in
\* the log record of the logging stage that sits between the two stages.
C27_OneStoreSurvives ==
  \A r \in Reqs :
    /\ Cardinality(BoundStores(r)) <= 1
    /\ (path[r] = "/hello/42" /\ ~fault[r])
         => \A i \in RequestRecords(r) :
              /\ "user_id" \in DOMAIN logs[r][i].attrs
              /\ logs[r][i].attrs["user_id"] = IntVal(UserID)


\* the post-handler emissions: the log record, the counter increment, the
\* duration observation, the span annotation and rename
EmissionOrder ==
  <<"logging.post", "counter.Add", "histogram.Record", "tracing.post">>

IsEmission(e) == \E i \in 1..Len(EmissionOrder) : EmissionOrder[i] = e

Emitted(r) == SelectSeq(events[r], IsEmission)

\* the emissions the chain in use can make, in the claimed order
ExpectedEmissions ==
  SelectSeq(EmissionOrder,
            LAMBDA e : e = "tracing.post" => HasStage(wiring, "TracingMiddleware"))

\* C28: in main's chain (with or without the tracing stage, with any number
\* of initialization stages) the post-handler emissions of one request come
\* in one order, the reverse of the registration order: the log record, then
\* the counter increment, then the duration observation, then the span
\* annotation and rename; what was emitted so far is always a prefix of it.
C28_EmissionsInReverseOrder ==
  \A r \in Reqs :
    /\ Len(Emitted(r)) <= Len(ExpectedEmissions)
    /\ Emitted(r) = SubSeq(ExpectedEmissions, 1, Len(Emitted(r)))

C28_Witness ==
  \E r, q \in Reqs :
    /\ r # q /\ wiring = MainWiring
    /\ Emitted(r) = EmissionOrder
    /\ Emitted(q) = <<"logging.post">>


\* C29: for every handler on the route and every sequence of WriteHeader and
\* Write calls it makes, once the metrics stage and the logging stage have
\* both emitted, the http.status_code label of the counter increment and of
\* the duration observation equals the status field of the request record.
C29_CapturesAgreeOnStatus ==
  \A r \in Reqs :
    \A i \in RequestRecords(r) :
      /\ \A j \in 1..Len(counterAdds[r]) :
           counterAdds[r][j]["http.status_code"] = logs[r][i].fields["status"]
      /\ \A j \in 1..Len(histRecords[r]) :
           histRecords[r][j]["http.status_code"] = logs[r][i].fields["status"]

C29_Witness ==
  \E r \in Reqs :
    /\ hin[r].any /\ Len(hin[r].writes) = 3
    /\ Len(counterAdds[r]) = 1 /\ Len(histRecords[r]) = 1
    /\ \E i \in RequestRecords(r) :
         /\ logs[r][i].fields["status"] = IntVal(StatusInternalServerError)
         /\ counterAdds[r][1]["http.status_code"] = IntVal(StatusInternalServerError)


\* ------------------------------------------------------------- SpecStore
\* MetricContext.AddAttribute returns before locking when the key is empty;
\* LoggingContext.AddAttribute has no such check
Rejects(kd, k) == kd = "MetricContext" /\ k = ""

\* sync.RWMutex: Lock first takes the writers' mutex, then waits for the
\* read locks to be released; RLock waits while a writer holds or awaits mu
CanLockAlways(c) == TRUE

CanLock(c) == muW = Nil

CanRLockAlways == TRUE

CanRLock == muW = Nil

\* AddAttribute(key, value) is called
AddAttributeEnter(c) ==
  /\ cpc[c] = "idle"
  /\ \E k \in Keys :
       /\ ckey' = [ckey EXCEPT ![c] = k]
       /\ cpc' = [cpc EXCEPT ![c] = IF Rejects(kind, k) THEN "done" ELSE "lock"]
  /\ UNCHANGED <<pipeVars, shutVars, inCallback, kind, attributes, muW, muReaders, lockOrder, rpc, rtodo,
                 delivered, rAfterAll>>

\* mu.Lock(): the call gets the writers' mutex and bars new readers
AddLock(c) ==
  /\ cpc[c] = "lock" /\ CanLock(c)
  /\ muW' = c
  /\ cpc' = [cpc EXCEPT ![c] = "wait"]
  /\ UNCHANGED <<pipeVars, shutVars, inCallback, kind, attributes, muReaders, ckey, lockOrder, rpc, rtodo,
                 delivered, rAfterAll>>

\* mu.Lock() returning while read locks are held
AddAcquireIgnoringReaders(c) ==
  /\ cpc[c] = "wait"
  /\ cpc' = [cpc EXCEPT ![c] = "held"]
  /\ lockOrder' = Append(lockOrder, c)
  /\ UNCHANGED <<pipeVars, shutVars, inCallback, kind, attributes, muW,
                 muReaders, ckey, rpc, rtodo, delivered, rAfterAll>>

\* mu.Lock() returns once no read lock is held
AddAcquire(c) ==
  /\ cpc[c] = "wait" /\ muReaders = 0
  /\ cpc' = [cpc EXCEPT ![c] = "held"]
  /\ lockOrder' = Append(lockOrder, c)
  /\ UNCHANGED <<pipeVars, shutVars, inCallback, kind, attributes, muW, muReaders, ckey, rpc, rtodo,
                 delivered, rAfterAll>>

\* attributes[key] = value
AddWrite(c) ==
  /\ cpc[c] = "held"
  /\ attributes' = MapStore(attributes, ckey[c], c)
  /\ cpc' = [cpc EXCEPT ![c] = "wrote"]
  /\ UNCHANGED <<pipeVars, shutVars, inCallback, kind, muW, muReaders, ckey, lockOrder, rpc, rtodo,
                 delivered, rAfterAll>>

\* AddAttribute returning without the deferred mu.Unlock()
AddUnlockKeepsLock(c) ==
  /\ cpc[c] = "wrote"
  /\ cpc' = [cpc EXCEPT ![c] = "done"]
  /\ UNCHANGED <<pipeVars, shutVars, inCallback, kind, attributes, muW, muReaders, ckey,
                 lockOrder, rpc, rtodo, delivered, rAfterAll>>

\* the deferred mu.Unlock()
AddUnlock(c) ==
  /\ cpc[c] = "wrote"
  /\ muW' = IF muW = c THEN Nil ELSE muW
  /\ cpc' = [cpc EXCEPT ![c] = "done"]
  /\ UNCHANGED <<pipeVars, shutVars, inCallback, kind, attributes, muReaders, ckey, lockOrder, rpc, rtodo,
                 delivered, rAfterAll>>

\* IterateAttributes / GetAllAttributes: mu.RLock()
ReadRLock ==
  /\ rpc = "idle" /\ CanRLock
  /\ muReaders' = muReaders + 1
  /\ rpc' = "iter"
  /\ rtodo' = DOMAIN attributes
  /\ rAfterAll' = \A c \in Calls : cpc[c] = "done"
  /\ UNCHANGED <<pipeVars, shutVars, inCallback, kind, attributes, muW, cpc, ckey, lockOrder, delivered>>

\* the reading goroutine is inside f(key, value), in an AddAttribute call
ReaderInCallback == inCallback # Nil /\ cpc[inCallback] # "done"

\* one round of for key, value := range attributes, in any order
ReadNext ==
  /\ rpc = "iter" /\ ~ReaderInCallback
  /\ \E k \in rtodo \cap DOMAIN attributes :
       /\ delivered' = Append(delivered, <<k, attributes[k]>>)
       /\ rtodo' = rtodo \ {k}
  /\ UNCHANGED <<pipeVars, shutVars, inCallback, kind, attributes, muW, muReaders, cpc, ckey, lockOrder,
                 rpc, rAfterAll>>

\* the loop is over: the deferred mu.RUnlock()
ReadRUnlock ==
  /\ rpc = "iter" /\ rtodo = {} /\ ~ReaderInCallback
  /\ muReaders' = muReaders - 1
  /\ rpc' = "done"
  /\ UNCHANGED <<pipeVars, shutVars, inCallback, kind, attributes, muW, cpc, ckey, lockOrder, rtodo,
                 delivered, rAfterAll>>

StoreNext ==
  \/ \E c \in Calls :
       \/ AddAttributeEnter(c)
       \/ AddLock(c)
       \/ AddAcquire(c)
       \/ AddWrite(c)
       \/ AddUnlock(c)
  \/ ReadRLock
  \/ ReadNext
  \/ ReadRUnlock

\* one store after newLoggingContext / newMetricContext; the pipeline is at
\* rest and untouched under SpecStore
InitStore == PipeInit /\ wiring = MainWiring /\ StoreInit /\ ShutInit

SpecStore == InitStore /\ [][StoreNext]_vars

\* f(key, value) calls AddAttribute on the store being iterated
CallbackAdd(c) ==
  /\ rpc = "iter" /\ Len(delivered) > 0 /\ inCallback = Nil
  /\ cpc[c] = "idle"
  /\ inCallback' = c
  /\ \E k \in Keys :
       /\ ckey' = [ckey EXCEPT ![c] = k]
       /\ cpc' = [cpc EXCEPT ![c] = IF Rejects(kind, k) THEN "done" ELSE "lock"]
  /\ UNCHANGED <<pipeVars, shutVars, kind, attributes, muW, muReaders,
                 lockOrder, rpc, rtodo, delivered, rAfterAll>>

StoreCbNext == StoreNext \/ \E c \in Calls : CallbackAdd(c)

\* the store with a reader whose callback may write to the store
SpecStoreCb == InitStore /\ [][StoreCbNext]_vars

\* fair scheduling: a goroutine that can take its next step inside a call
\* eventually takes it, and the read is eventually made; whether and when an
\* AddAttribute call is made is up to the caller
StoreFairness ==
  /\ \A c \in Calls :
       /\ WF_vars(AddLock(c))
       /\ WF_vars(AddAcquire(c))
       /\ WF_vars(AddWrite(c))
       /\ WF_vars(AddUnlock(c))
  /\ WF_vars(ReadRLock)
  /\ WF_vars(ReadNext)
  /\ WF_vars(ReadRUnlock)

SpecStoreFair == SpecStore /\ StoreFairness

SpecStoreCbFair == SpecStoreCb /\ StoreFairness

\* -------------------------------------------------- claims on SpecStore
AllReturned == \A c \in Calls : cpc[c] = "done"
DistinctKeys == \A c1, c2 \in Calls : c1 # c2 => ckey[c1] # ckey[c2]
\* the calls that wrote: all but a MetricContext call with the empty key
Effective == {c \in Calls : ~Rejects(kind, ckey[c])}
DeliveredFor(k) == {i \in 1..Len(delivered) : delivered[i][1] = k}
\* the call with key k that acquired the write lock last
LastLocked(k) ==
  LET idx == {i \in 1..Len(lockOrder) : ckey[lockOrder[i]] = k}
  IN lockOrder[CHOOSE i \in idx : \A j \in idx : j <= i]

\* C4: after calls with pairwise distinct keys have all returned, a read of
\* the whole store hands out the entry of every call, each once, and nothing
\* else (a MetricContext call with the empty key writes no entry).
C4_NoLostWrites ==
  (rpc = "done" /\ rAfterAll /\ DistinctKeys)
  => /\ \A c \in Effective : \E i \in 1..Len(delivered) : delivered[i] = <<ckey[c], c>>
     /\ Len(delivered) = Cardinality(Effective)

C4_Witness ==
  /\ rpc = "done" /\ rAfterAll /\ DistinctKeys
  /\ Len(delivered) = NCalls
  /\ lockOrder[1] # 1

\* C5: after all calls returned, a key written by several calls has one
\* entry, in the map and in a read of the whole store, and its value is that
\* of the call that acquired the write lock last.
C5_LastWriteWins ==
  AllReturned
  => /\ DOMAIN attributes = {ckey[c] : c \in Effective}
     /\ \A k \in DOMAIN attributes : attributes[k] = LastLocked(k)
     /\ (rpc = "done" /\ rAfterAll)
          => \A k \in DOMAIN attributes :
               /\ Cardinality(DeliveredFor(k)) = 1
               /\ \A i \in DeliveredFor(k) : delivered[i][2] = LastLocked(k)

C5_Witness ==
  /\ AllReturned /\ rpc = "done" /\ rAfterAll
  /\ \E c1, c2 \in Calls :
       /\ c1 < c2 /\ ckey[c1] = ckey[c2] /\ c1 \in Effective
       /\ LastLocked(ckey[c1]) = c1
       /\ delivered = <<<<ckey[c1], c1>>>>

\* C16 (as claimed): LoggingContext.AddAttribute with the empty key is a
\* no-op: a call with the empty key leaves the store's entries as they were,
\* and the store never holds an entry whose key is empty.
C16_EmptyKeyIsNoOp ==
  kind = "LoggingContext"
  => /\ "" \notin DOMAIN attributes
     /\ \A c \in Calls :
          (ckey[c] = "" /\ cpc[c] = "done") => c \notin {attributes[k] : k \in DOMAIN attributes}


Entries(m) == {<<k, m[k]>> : k \in DOMAIN m}
DeliveredSet == {delivered[i] : i \in 1..Len(delivered)}

\* C22: a whole-store read is an atomic snapshot: from its RLock to its
\* RUnlock no step changes the map, at the RUnlock the pairs handed out are
\* exactly the map's entries, each once, and every pair handed out is the
\* (key, value) of an AddAttribute call that wrote.
C22_ReadIsSnapshot ==
  [][/\ rpc = "iter" => attributes' = attributes
     /\ (rpc = "iter" /\ rpc' = "done")
          => /\ DeliveredSet = Entries(attributes)
             /\ Len(delivered) = Cardinality(DOMAIN attributes)
     /\ \A i \in 1..Len(delivered') :
          \E c \in Calls : /\ delivered'[i] = <<ckey[c], c>>
                           /\ cpc[c] \in {"wrote", "done"}]_vars

C22_Witness ==
  /\ rpc = "done" /\ ~rAfterAll
  /\ Len(delivered) = 1
  /\ Cardinality(DOMAIN attributes) = 2
  /\ \E c \in Calls : cpc[c] = "done" /\ <<ckey[c], c>> \notin DeliveredSet


\* C23: under fair scheduling every AddAttribute call that was made returns,
\* and the read (RLock, loop or lookup, RUnlock) returns, whatever the
\* interleaving of the writers and the reader.
C23_EveryCallReturns ==
  /\ \A c \in Calls : (cpc[c] # "idle") ~> (cpc[c] = "done")
  /\ <>(rpc = "done")

C23_Witness ==
  /\ rpc = "iter" /\ muReaders > 0
  /\ \E c1, c2 \in Calls : cpc[c1] = "wait" /\ cpc[c2] = "lock"


\* C26: IterateAttributes keeps its read lock while the callback runs: an
\* AddAttribute call the callback makes on the same LoggingContext never gets
\* past mu.Lock(), so neither it nor the iteration ever returns; under fair
\* scheduling an iteration whose callback makes no such call finishes.
C26_CallbackWriteDeadlocks ==
  /\ []((inCallback # Nil /\ ~Rejects(kind, ckey[inCallback]))
          => /\ cpc[inCallback] \in {"lock", "wait"}
             /\ rpc = "iter" /\ muReaders > 0)
  /\ <>(rpc = "done" \/ inCallback # Nil)

C26_Witness ==
  /\ kind = "LoggingContext"
  /\ inCallback # Nil /\ cpc[inCallback] = "wait" /\ rpc = "iter"
  /\ \A c \in Calls : c # inCallback => cpc[c] \in {"done", "lock"}


\* ---------------------------------------------------------- SpecShutdown
\* main from <-quit to its end, the serving goroutine, and the requests the
\* server is handling meanwhile
ProcLog(m) == procLogs' = Append(procLogs, m)

ProcessRuns == mainPc \notin {"exited", "fatal"}

\* go func(): srv.ListenAndServe() starts to accept
ServeStart ==
  /\ ProcessRuns /\ servePc = "starting" /\ mainPc = "wait"
  /\ servePc' = "serving"
  /\ ProcLog("Starting server")
  /\ UNCHANGED <<pipeVars, storeVars, mainPc, inflight, clock, drainDeadline,
                 exitTimer, shutdownErr>>

\* srv.ListenAndServe() fails (the address is in use): logger.Fatal exits
ListenFails ==
  /\ ProcessRuns /\ servePc = "starting" /\ mainPc = "wait"
  /\ mainPc' = "fatal"
  /\ ProcLog("ListenAndServe error")
  /\ UNCHANGED <<pipeVars, storeVars, servePc, inflight, clock, drainDeadline,
                 exitTimer, shutdownErr>>

\* the server accepts a request; after Shutdown was called it accepts none
Accept ==
  /\ ProcessRuns /\ servePc = "serving" /\ mainPc = "wait"
  /\ inflight < MaxInflight
  /\ inflight' = inflight + 1
  /\ UNCHANGED <<pipeVars, storeVars, mainPc, servePc, clock, drainDeadline,
                 exitTimer, shutdownErr, procLogs>>

\* a request completes
Complete ==
  /\ ProcessRuns /\ inflight > 0
  /\ inflight' = inflight - 1
  /\ UNCHANGED <<pipeVars, storeVars, mainPc, servePc, clock, drainDeadline,
                 exitTimer, shutdownErr, procLogs>>

\* <-quit returns; main makes the drain context and calls srv.Shutdown(ctx)
Signal ==
  /\ mainPc = "wait"
  /\ mainPc' = "shutdown"
  /\ drainDeadline' = clock + DrainSeconds
  /\ ProcLog("Shutdown signal received, shutting down server...")
  /\ UNCHANGED <<pipeVars, storeVars, servePc, inflight, clock, exitTimer,
                 shutdownErr>>

\* srv.Shutdown was called: ListenAndServe returns http.ErrServerClosed
ServeReturns ==
  /\ ProcessRuns /\ servePc \in {"starting", "serving"} /\ mainPc # "wait"
  /\ servePc' = "returned"
  /\ UNCHANGED <<pipeVars, storeVars, mainPc, inflight, clock, drainDeadline,
                 exitTimer, shutdownErr, procLogs>>

\* close(done)
CloseDone ==
  /\ ProcessRuns /\ servePc = "returned"
  /\ servePc' = "closed"
  /\ UNCHANGED <<pipeVars, storeVars, mainPc, inflight, clock, drainDeadline,
                 exitTimer, shutdownErr, procLogs>>

\* srv.Shutdown(ctx) returns nil once no request is in flight, ctx.Err() once
\* the drain context expired; main logs the outcome and enters the select
ShutdownResultsNoDeadline == IF inflight = 0 THEN {"nil"} ELSE {}

ShutdownResults ==
  (IF inflight = 0 THEN {"nil"} ELSE {})
    \cup (IF clock >= drainDeadline THEN {"deadline"} ELSE {})

ShutdownReturns ==
  /\ mainPc = "shutdown"
  /\ \E e \in ShutdownResults :
       /\ shutdownErr' = e
       /\ ProcLog(IF e = "nil" THEN "Server shutdown completed"
                  ELSE "Server shutdown failed")
  /\ mainPc' = "select"
  /\ exitTimer' = clock + ExitTimerSeconds
  /\ UNCHANGED <<pipeVars, storeVars, servePc, inflight, clock, drainDeadline>>

\* select: case <-done
SelectDone ==
  /\ mainPc = "select" /\ servePc = "closed"
  /\ mainPc' = "exited"
  /\ ProcLog("Server exited gracefully")
  /\ UNCHANGED <<pipeVars, storeVars, servePc, inflight, clock, drainDeadline,
                 exitTimer, shutdownErr>>

\* select: case <-time.After(11 * time.Second)
SelectTimeout ==
  /\ mainPc = "select" /\ clock >= exitTimer
  /\ mainPc' = "exited"
  /\ ProcLog("Server shutdown timed out, forcing exit")
  /\ UNCHANGED <<pipeVars, storeVars, servePc, inflight, clock, drainDeadline,
                 exitTimer, shutdownErr>>

\* a second passes; main does not sleep through a return or a case that is
\* ready
ClockTick ==
  /\ mainPc \in {"shutdown", "select"}
  /\ clock < MaxClock
  /\ ~(mainPc = "shutdown" /\ ShutdownResults # {})
  /\ ~(mainPc = "select" /\ (servePc = "closed" \/ clock >= exitTimer))
  /\ clock' = clock + 1
  /\ UNCHANGED <<pipeVars, storeVars, mainPc, servePc, inflight, drainDeadline,
                 exitTimer, shutdownErr, procLogs>>

ShutdownNext ==
  \/ ServeStart
  \/ ListenFails
  \/ Accept
  \/ Complete
  \/ Signal
  \/ ServeReturns
  \/ CloseDone
  \/ ShutdownReturns
  \/ SelectDone
  \/ SelectTimeout
  \/ ClockTick

\* main waits for the signal; pipeline and store are at rest and untouched
InitShutdown ==
  PipeInit /\ wiring = MainWiring /\ StoreInit /\ kind = "LoggingContext" /\ ShutInit

SpecShutdown == InitShutdown /\ [][ShutdownNext]_vars

\* main's goroutine runs when it can and time passes; nothing is assumed of
\* the serving goroutine or of the requests in flight
ShutdownFairness ==
  /\ WF_vars(ShutdownReturns)
  /\ WF_vars(SelectDone)
  /\ WF_vars(SelectTimeout)
  /\ WF_vars(ClockTick)

SpecShutdownFair == SpecShutdown /\ ShutdownFairness

\* ----------------------------------------------- claims on SpecShutdown
Logged(m) == \E i \in 1..Len(procLogs) : procLogs[i] = m

\* C20 (as claimed): main reports a graceful exit only when srv.Shutdown
\* returned no error, and when srv.Shutdown returned the drain context's
\* error, requests being outstanding past the deadline, main has reported a
\* forced exit by the time it ends.
C20_GracefulOnlyWhenDrained ==
  /\ Logged("Server exited gracefully") => shutdownErr = "nil"
  /\ (mainPc = "exited" /\ shutdownErr = "deadline")
       => Logged("Server shutdown timed out, forcing exit")

\* C30: once the shutdown signal has been received main reaches its end,
\* whether or not the requests in flight complete and whether or not the
\* serving goroutine closes the done channel.
C30_MainEndsAfterSignal == (mainPc = "shutdown") ~> (mainPc = "exited")

C30_Witness ==
  /\ mainPc = "exited" /\ inflight > 0 /\ servePc # "closed"
  /\ shutdownErr = "deadline"
  /\ Logged("Server shutdown timed out, forcing exit")

====
